---------------------------- MODULE Spec2Model ----------------------------
(***************************************************************************)
(* A model of the memoiter crate (src/src/lib.rs): MemoIter<I, T>, an      *)
(* Iterator paired with the Vec<T> of the items it has returned.           *)
(*                                                                         *)
(* Option<T> is a sequence of length 0 (None) or 1 (Some(v)); a slice      *)
(* &[T] is a sequence.  The wrapped Iterator is generic in the source: it  *)
(* is modelled as a script of the answers it gives to successive next()    *)
(* calls, instrumented with the number of calls made and the values it     *)
(* has yielded.  MemoIter never inspects a value of T, so the value        *)
(* yielded by the p-th entry of a script is the tag p.                     *)
(***************************************************************************)
EXTENDS Integers, Sequences, FiniteSets

(* Bounds of the model. *)
MaxProd == 3
MaxInit == 1
MaxIdx == 3
UsizeBits == 8

(* size_of::<T>() for the u32 items of the examples and tests. *)
ElemSize == 4

USIZE_MAX == 2 ^ UsizeBits - 1
ISIZE_MAX == 2 ^ (UsizeBits - 1) - 1
(* Vec<T> cannot hold more than isize::MAX bytes. *)
CapLimit == ISIZE_MAX \div ElemSize

Min(a, b) == IF a <= b THEN a ELSE b

None == << >>
Some(v) == << v >>

(* The value given to with_vec's items (test_prevec: vec![0]). *)
InitVal == 0

(* The indices the calls are made with: small ones and usize::MAX. *)
IdxSet == (0 .. MaxIdx) \cup {USIZE_MAX}

Unbounded == [kind |-> "Unbounded", i |-> 0]
Included(i) == [kind |-> "Included", i |-> i]
Excluded(i) == [kind |-> "Excluded", i |-> i]
BoundSet == {Unbounded} \cup {Included(i) : i \in IdxSet}
                        \cup {Excluded(i) : i \in IdxSet}

(***************************************************************************)
(* The wrapped iterator.  A script is a sequence of Option<T>: entry p is  *)
(* Some(p) or None; once the script is used up the iterator answers None.  *)
(* A None in the middle of a script is an iterator that is not fused.      *)
(***************************************************************************)
ScriptsOfLen(n) == { [p \in 1 .. n |-> IF p \in S THEN Some(p) ELSE None] :
                       S \in SUBSET (1 .. n) }
Scripts == UNION { ScriptsOfLen(n) : n \in 0 .. MaxProd }

Producer(script) == [rest |-> script, calls |-> 0, yielded |-> << >>]

(* self.iterator.next(): the answer and the iterator after the call. *)
IteratorNext(it) ==
    IF it.rest = << >>
    THEN [item |-> None,
          it   |-> [it EXCEPT !.calls = @ + 1]]
    ELSE [item |-> Head(it.rest),
          it   |-> [rest    |-> Tail(it.rest),
                    calls   |-> it.calls + 1,
                    yielded |-> it.yielded \o Head(it.rest)]]

(***************************************************************************)
(* Construction.                                                           *)
(***************************************************************************)
new(iterator) ==
    [exhausted |-> FALSE, iterator |-> iterator, sequence |-> << >>]

with_capacity(capacity, iterator) ==
    [exhausted |-> FALSE, iterator |-> iterator, sequence |-> << >>]

with_vec(iterator, sequence) ==
    [exhausted |-> FALSE, iterator |-> iterator, sequence |-> sequence]

from(into) == new(into)

InitVecs == { [p \in 1 .. n |-> InitVal] : n \in 0 .. MaxInit }

(***************************************************************************)
(* Vec and slice primitives, with the panics the standard library raises.  *)
(***************************************************************************)
(* usize addition: overflow panics when the build checks it, else wraps. *)
UsizeAdd(a, b, checks) ==
    IF a + b <= USIZE_MAX
    THEN [panic |-> FALSE, val |-> a + b]
    ELSE [panic |-> checks, val |-> (a + b) % (USIZE_MAX + 1)]

(* Vec::reserve(additional) panics when len + additional exceeds the *)
(* capacity a Vec<T> can have.                                        *)
ReservePanics(len, additional) == len + additional > CapLimit

(* Vec::get(idx) *)
VecGet(seq, idx) == IF idx < Len(seq) THEN Some(seq[idx + 1]) ELSE None

(* &seq[a..b] panics when a > b or b > len. *)
SliceRange(seq, a, b) ==
    IF a > b \/ b > Len(seq)
    THEN [panic |-> TRUE, view |-> << >>]
    ELSE [panic |-> FALSE, view |-> SubSeq(seq, a + 1, b)]

(* &seq[a..=b] panics when b = usize::MAX, else is &seq[a..b + 1]. *)
SliceRangeInclusive(seq, a, b) ==
    IF b = USIZE_MAX
    THEN [panic |-> TRUE, view |-> << >>]
    ELSE SliceRange(seq, a, b + 1)

SaturatingSub(a, b) == IF a >= b THEN a - b ELSE 0

(***************************************************************************)
(* MemoIter's methods, as functions of self (and the build's overflow      *)
(* checks) giving self after the call, the value returned and whether the  *)
(* call panicked.                                                          *)
(***************************************************************************)
evaluated(self) == Len(self.sequence)

is_exhausted(self) == self.exhausted

(* ExpandLoop with shrink_to_fit mistaken for clear: the cache is emptied *)
(* when the iterator completes.                                          *)
RECURSIVE ExpandLoop_ClearsOnNone(_, _, _)
ExpandLoop_ClearsOnNone(self, i, idx) ==
    IF i > idx
    THEN self
    ELSE LET r == IteratorNext(self.iterator)
         IN  IF r.item # None
             THEN ExpandLoop_ClearsOnNone(
                      [self EXCEPT !.iterator = r.it,
                                   !.sequence = Append(@, r.item[1])],
                      i + 1, idx)
             ELSE [self EXCEPT !.iterator = r.it, !.exhausted = TRUE,
                               !.sequence = << >>]

(* ExpandLoop marking the container exhausted as soon as the iterator has *)
(* nothing left, before the iterator has said so.                        *)
RECURSIVE ExpandLoop_EagerExhaust(_, _, _)
ExpandLoop_EagerExhaust(self, i, idx) ==
    IF i > idx
    THEN self
    ELSE LET r == IteratorNext(self.iterator)
         IN  IF r.item # None
             THEN ExpandLoop_EagerExhaust(
                      [self EXCEPT !.iterator = r.it,
                                   !.sequence = Append(@, r.item[1]),
                                   !.exhausted = (r.it.rest = << >>)],
                      i + 1, idx)
             ELSE [self EXCEPT !.iterator = r.it, !.exhausted = TRUE]

(* The loop `for _i in len..=idx` of expand_to_contain, from _i = i. *)
RECURSIVE ExpandLoop(_, _, _)
ExpandLoop(self, i, idx) ==
    IF i > idx
    THEN self
    ELSE LET r == IteratorNext(self.iterator)
         IN  IF r.item # None
             THEN ExpandLoop([self EXCEPT !.iterator = r.it,
                                          !.sequence = Append(@, r.item[1])],
                             i + 1, idx)
             ELSE [self EXCEPT !.iterator = r.it, !.exhausted = TRUE]

(* expand_to_contain looping over 0..=idx instead of len..=idx. *)
expand_to_contain_FromZero(self, idx, checks) ==
    IF ~self.exhausted
    THEN LET len == Len(self.sequence)
             additional == UsizeAdd(idx, 1, checks)
         IN  IF additional.panic \/ ReservePanics(len, additional.val)
             THEN [self |-> self, panic |-> TRUE]
             ELSE [self |-> ExpandLoop(self, 0, idx), panic |-> FALSE]
    ELSE [self |-> self, panic |-> FALSE]

(* expand_to_contain without the test of the exhausted flag. *)
expand_to_contain_NoExhaustedCheck(self, idx, checks) ==
    LET len == Len(self.sequence)
    IN  IF idx >= len
        THEN LET additional == UsizeAdd(idx - len, 1, checks)
             IN  IF additional.panic \/ ReservePanics(len, additional.val)
                 THEN [self |-> self, panic |-> TRUE]
                 ELSE [self |-> ExpandLoop(self, len, idx), panic |-> FALSE]
        ELSE [self |-> self, panic |-> FALSE]

expand_to_contain(self, idx, checks) ==
    IF ~self.exhausted
    THEN LET len == Len(self.sequence)
         IN  IF idx >= len
             THEN LET additional == UsizeAdd(idx - len, 1, checks)
                  IN  IF additional.panic
                         \/ ReservePanics(len, additional.val)
                      THEN [self |-> self, panic |-> TRUE]
                      ELSE [self |-> ExpandLoop(self, len, idx),
                            panic |-> FALSE]
             ELSE [self |-> self, panic |-> FALSE]
    ELSE [self |-> self, panic |-> FALSE]

get(self, idx, checks) ==
    LET e == expand_to_contain(self, idx, checks)
    IN  [self  |-> e.self,
         panic |-> e.panic,
         ret   |-> IF e.panic THEN None ELSE VecGet(e.self.sequence, idx)]

(* recall evaluating the index as get does. *)
recall_Forces(self, idx) ==
    LET e == expand_to_contain(self, idx, FALSE)
    IN  [self |-> e.self, panic |-> e.panic,
         ret |-> IF e.panic THEN None ELSE VecGet(e.self.sequence, idx)]

recall(self, idx) ==
    [self |-> self, panic |-> FALSE, ret |-> VecGet(self.sequence, idx)]

(* The start of the range as an inclusive index (lines 154-158). *)
StartIndex(start, checks) ==
    CASE start.kind = "Unbounded" -> [panic |-> FALSE, val |-> 0]
      [] start.kind = "Included"  -> [panic |-> FALSE, val |-> start.i]
      [] start.kind = "Excluded"  -> UsizeAdd(start.i, 1, checks)

get_slice(self, start, end, checks) ==
    LET f == StartIndex(start, checks)
        first == f.val
    IN  IF f.panic
        THEN [self |-> self, panic |-> TRUE, ret |-> << >>]
        ELSE CASE end.kind = "Unbounded" ->
                    LET e == Len(self.sequence)
                        s == SliceRange(self.sequence, Min(first, e), e)
                    IN  [self |-> self, panic |-> s.panic, ret |-> s.view]
               [] end.kind = "Included" ->
                    LET x == expand_to_contain(self, end.i, checks)
                        last == Min(SaturatingSub(Len(x.self.sequence), 1),
                                    end.i)
                        s == IF first <= last
                             THEN SliceRangeInclusive(x.self.sequence,
                                                      first, last)
                             ELSE [panic |-> FALSE, view |-> << >>]
                    IN  IF x.panic
                        THEN [self |-> self, panic |-> TRUE, ret |-> << >>]
                        ELSE [self |-> x.self, panic |-> s.panic,
                              ret |-> s.view]
               [] end.kind = "Excluded" ->
                    LET x == expand_to_contain(self, SaturatingSub(end.i, 1),
                                               checks)
                        e == Min(Len(x.self.sequence), end.i)
                        s == SliceRange(x.self.sequence, Min(first, e), e)
                    IN  IF x.panic
                        THEN [self |-> self, panic |-> TRUE, ret |-> << >>]
                        ELSE [self |-> x.self, panic |-> s.panic,
                              ret |-> s.view]

(* next yielding the value without caching it. *)
next_NoPush(self) ==
    IF ~self.exhausted
    THEN LET r == IteratorNext(self.iterator)
         IN  IF r.item # None
             THEN [self  |-> [self EXCEPT !.iterator = r.it],
                   panic |-> FALSE,
                   ret   |-> r.item]
             ELSE [self  |-> [self EXCEPT !.iterator = r.it,
                                          !.exhausted = TRUE],
                   panic |-> FALSE,
                   ret   |-> None]
    ELSE [self |-> self, panic |-> FALSE, ret |-> None]

(* next without the test of the exhausted flag. *)
next_NoExhaustedCheck(self) ==
    LET r == IteratorNext(self.iterator)
    IN  IF r.item # None
        THEN [self  |-> [self EXCEPT !.iterator = r.it,
                                     !.sequence = Append(@, r.item[1])],
              panic |-> FALSE,
              ret   |-> r.item]
        ELSE [self  |-> [self EXCEPT !.iterator = r.it, !.exhausted = TRUE],
              panic |-> FALSE,
              ret   |-> None]

(* next yielding the oldest cached value instead of the one it pulled. *)
next_Replays(self) ==
    IF ~self.exhausted
    THEN LET r == IteratorNext(self.iterator)
             pushed == Append(self.sequence, r.item[1])
         IN  IF r.item # None
             THEN [self  |-> [self EXCEPT !.iterator = r.it,
                                          !.sequence = pushed],
                   panic |-> FALSE,
                   ret   |-> Some(Head(pushed))]
             ELSE [self  |-> [self EXCEPT !.iterator = r.it,
                                          !.exhausted = TRUE],
                   panic |-> FALSE,
                   ret   |-> None]
    ELSE [self |-> self, panic |-> FALSE, ret |-> None]

(* Iterator::next for MemoIter. *)
next(self) ==
    IF ~self.exhausted
    THEN LET r == IteratorNext(self.iterator)
         IN  IF r.item # None
             THEN [self  |-> [self EXCEPT !.iterator = r.it,
                                          !.sequence = Append(@, r.item[1])],
                   panic |-> FALSE,
                   ret   |-> r.item]
             ELSE [self  |-> [self EXCEPT !.iterator = r.it,
                                          !.exhausted = TRUE],
                   panic |-> FALSE,
                   ret   |-> None]
    ELSE [self |-> self, panic |-> FALSE, ret |-> None]

consume(self) == << self.sequence, self.iterator >>

(* A script with no None in it: an ExactSizeIterator such as a range, which *)
(* knows how many items it has left.                                       *)
IsExactSize(script) == \A p \in 1 .. Len(script) : script[p] # None

(* self.iterator.len() *)
IteratorLen(it) == Len(it.rest)

(* ExactSizeIterator::len for MemoIter. *)
len(self, checks) ==
    LET sum == UsizeAdd(Len(self.sequence), IteratorLen(self.iterator),
                        checks)
    IN  [self |-> self, panic |-> sum.panic,
         ret |-> IF sum.panic THEN << >> ELSE << sum.val >>]

(***************************************************************************)
(* The state machine: a container and the calls a program makes on it.     *)
(***************************************************************************)
VARIABLES
    exhausted,        \* MemoIter::exhausted
    iterator,         \* MemoIter::iterator
    sequence,         \* MemoIter::sequence
    overflow_checks,  \* whether the build checks integer overflow
    status,           \* "live", "panicked" (a call panicked) or "consumed"
    initial,          \* the sequence and script the container was built with
    call,             \* the last call made
    ret,              \* what the last call returned
    pre,              \* the fields before the last call
    drivers           \* the interfaces that have appended to the cache

vars == << exhausted, iterator, sequence, overflow_checks, status, initial,
           call, ret, pre, drivers >>

Self == [exhausted |-> exhausted, iterator |-> iterator,
         sequence |-> sequence]

Call(op, idx, start, end) ==
    [op |-> op, idx |-> idx, start |-> start, end |-> end]

NoCall == Call("none", 0, Unbounded, Unbounded)

Init ==
    /\ overflow_checks \in BOOLEAN
    /\ \E script \in Scripts, vec \in InitVecs, capacity \in 0 .. MaxIdx :
         \E self \in { new(Producer(script)),
                       with_capacity(capacity, Producer(script)),
                       with_vec(Producer(script), vec),
                       from(Producer(script)) } :
            /\ exhausted = self.exhausted
            /\ iterator = self.iterator
            /\ sequence = self.sequence
            /\ initial = [sequence |-> self.sequence, script |-> script]
    /\ status = "live"
    /\ call = NoCall
    /\ ret = << >>
    /\ pre = Self
    /\ drivers = {}

(* The interface a method belongs to: the Iterator overlay or the indexed *)
(* lookups.                                                              *)
Interface(op) == IF op = "next" THEN "next" ELSE "indexed"

(* The effect of a call that gave result r. *)
Apply(c, r) ==
    /\ exhausted' = r.self.exhausted
    /\ iterator' = r.self.iterator
    /\ sequence' = r.self.sequence
    /\ status' = IF r.panic THEN "panicked" ELSE "live"
    /\ call' = c
    /\ ret' = r.ret
    /\ pre' = Self
    /\ drivers' = IF r.self.sequence # sequence
                  THEN drivers \cup {Interface(c.op)} ELSE drivers
    /\ UNCHANGED << overflow_checks, initial >>

Get ==
    /\ status = "live"
    /\ \E idx \in IdxSet :
         Apply(Call("get", idx, Unbounded, Unbounded),
               get(Self, idx, overflow_checks))

GetSlice ==
    /\ status = "live"
    /\ \E start \in BoundSet, end \in BoundSet :
         Apply(Call("get_slice", 0, start, end),
               get_slice(Self, start, end, overflow_checks))

Recall ==
    /\ status = "live"
    /\ \E idx \in IdxSet :
         Apply(Call("recall", idx, Unbounded, Unbounded), recall(Self, idx))

Advance ==
    /\ status = "live"
    /\ Apply(Call("next", 0, Unbounded, Unbounded), next(Self))

Evaluated ==
    /\ status = "live"
    /\ Apply(Call("evaluated", 0, Unbounded, Unbounded),
             [self |-> Self, panic |-> FALSE, ret |-> << evaluated(Self) >>])

IsExhausted ==
    /\ status = "live"
    /\ Apply(Call("is_exhausted", 0, Unbounded, Unbounded),
             [self |-> Self, panic |-> FALSE,
              ret |-> << is_exhausted(Self) >>])

LenCall ==
    /\ status = "live"
    /\ IsExactSize(initial.script)
    /\ Apply(Call("len", 0, Unbounded, Unbounded),
             len(Self, overflow_checks))

Consume ==
    /\ status = "live"
    /\ status' = "consumed"
    /\ call' = Call("consume", 0, Unbounded, Unbounded)
    /\ ret' = consume(Self)
    /\ pre' = Self
    /\ UNCHANGED << exhausted, iterator, sequence, overflow_checks, initial,
                    drivers >>

Next ==
    \/ Get
    \/ GetSlice
    \/ Recall
    \/ Advance
    \/ Evaluated
    \/ IsExhausted
    \/ LenCall
    \/ Consume

Spec == Init /\ [][Next]_vars

(***************************************************************************)
(* Containers over exact-size producers of any length a usize can count    *)
(* (such as 0..usize::MAX), called with small indices while the cache is   *)
(* short.                                                                  *)
(***************************************************************************)
ExactScript(n) == [p \in 1 .. n |-> Some(p)]

ExactLens == (0 .. MaxProd) \cup {USIZE_MAX - 1, USIZE_MAX}

SmallBoundSet == {Unbounded} \cup {Included(i) : i \in 0 .. MaxIdx}
                             \cup {Excluded(i) : i \in 0 .. MaxIdx}

InitLen ==
    /\ overflow_checks \in BOOLEAN
    /\ \E n \in ExactLens, vec \in InitVecs :
         LET self == with_vec(Producer(ExactScript(n)), vec)
         IN  /\ exhausted = self.exhausted
             /\ iterator = self.iterator
             /\ sequence = self.sequence
             /\ initial = [sequence |-> vec, script |-> ExactScript(n)]
    /\ status = "live"
    /\ call = NoCall
    /\ ret = << >>
    /\ pre = Self
    /\ drivers = {}

GetSmall ==
    /\ status = "live"
    /\ Len(sequence) <= MaxProd
    /\ \E idx \in 0 .. MaxIdx :
         Apply(Call("get", idx, Unbounded, Unbounded),
               get(Self, idx, overflow_checks))

GetSliceSmall ==
    /\ status = "live"
    /\ Len(sequence) <= MaxProd
    /\ \E start \in SmallBoundSet, end \in SmallBoundSet :
         Apply(Call("get_slice", 0, start, end),
               get_slice(Self, start, end, overflow_checks))

AdvanceSmall ==
    /\ Len(sequence) <= MaxProd
    /\ Advance

NextLen ==
    \/ LenCall
    \/ GetSmall
    \/ GetSliceSmall
    \/ AdvanceSmall

SpecLen == InitLen /\ [][NextLen]_vars

(***************************************************************************)
(* What the claims speak of.                                               *)
(***************************************************************************)
(* The values a script yields before its first None. *)
RECURSIVE ValuesBeforeNone(_)
ValuesBeforeNone(script) ==
    IF script = << >> \/ Head(script) = None
    THEN << >>
    ELSE Head(script) \o ValuesBeforeNone(Tail(script))

(* The overall sequence: the initial cache, then the producer's values. *)
FullSeq == initial.sequence \o ValuesBeforeNone(initial.script)

(* The values the producer yielded during the last call. *)
NewlyYielded == SubSeq(iterator.yielded, Len(pre.iterator.yielded) + 1,
                       Len(iterator.yielded))

(* The producer would still yield a value if it were asked again. *)
CouldYield(it) == \E p \in 1 .. Len(it.rest) : it.rest[p] # None

(* The start of the last get_slice call as an inclusive index, unbounded. *)
CallStart ==
    CASE call.start.kind = "Unbounded" -> 0
      [] call.start.kind = "Included"  -> call.start.i
      [] call.start.kind = "Excluded"  -> call.start.i + 1

(* seq[a..b] of zero-based indices, empty when a >= b. *)
View(seq, a, b) == SubSeq(seq, a + 1, b)

(***************************************************************************)
(* C1: in a container created with an empty cache, the cached value at     *)
(* every index i is the i-th value the producer yielded, and the producer  *)
(* has been asked for each of them exactly once: the calls made are one    *)
(* per cached value, plus the one that observed completion.                *)
(***************************************************************************)
C1_CacheIsProducerPrefix ==
    initial.sequence = << >> =>
        /\ Len(sequence) <= Len(initial.script)
        /\ \A i \in 1 .. Len(sequence) :
              initial.script[i] = Some(sequence[i])
        /\ sequence = iterator.yielded
        /\ iterator.calls = Len(sequence) + (IF exhausted THEN 1 ELSE 0)

C1_Witness ==
    /\ initial.sequence = << >>
    /\ call.op = "next"
    /\ Len(pre.sequence) = 2
    /\ Len(sequence) = 3

(***************************************************************************)
(* C2: the cache is append-only: no call shortens it or changes a value    *)
(* already cached, and get of a cached index returns that same value.      *)
(***************************************************************************)
C2_AppendOnly ==
    /\ Len(sequence) >= Len(pre.sequence)
    /\ SubSeq(sequence, 1, Len(pre.sequence)) = pre.sequence
    /\ (call.op = "get" /\ call.idx < Len(pre.sequence)) =>
          ret = Some(pre.sequence[call.idx + 1])

C2_Witness ==
    /\ call.op = "get"
    /\ call.idx < Len(pre.sequence)
    /\ Len(pre.sequence) >= 2
    /\ exhausted

(***************************************************************************)
(* C3: get(k) of an index already evaluated makes no call to the producer. *)
(***************************************************************************)
C3_NoRecompute ==
    (call.op = "get" /\ call.idx < Len(pre.sequence)) =>
        /\ iterator.calls = pre.iterator.calls
        /\ iterator = pre.iterator

C3_Witness ==
    /\ call.op = "get"
    /\ call.idx + 1 < Len(pre.sequence)
    /\ ~pre.exhausted
    /\ CouldYield(pre.iterator)

(***************************************************************************)
(* C4: get(index) returns the value at position index of the overall       *)
(* sequence when there is one and absent, never a fault, when the producer *)
(* completes before index; afterwards evaluated_count > index or the       *)
(* container is exhausted.                                                 *)
(***************************************************************************)
C4_GetReturnsOrAbsent ==
    call.op = "get" =>
        /\ status = "live"
        /\ ret = (IF call.idx < Len(FullSeq)
                  THEN Some(FullSeq[call.idx + 1]) ELSE None)
        /\ (Len(sequence) > call.idx \/ exhausted)

(***************************************************************************)
(* C5: once the container is exhausted no call asks the producer again,    *)
(* even when the producer would yield further values; the call that        *)
(* observed completion is the last one made to the producer, and the       *)
(* values appended earlier in that call stay cached.                       *)
(***************************************************************************)
C5_NoCallAfterExhaustion ==
    /\ pre.exhausted => iterator = pre.iterator
    /\ exhausted => iterator.calls = Len(iterator.yielded) + 1
    /\ (exhausted /\ ~pre.exhausted) =>
          sequence = pre.sequence \o NewlyYielded

C5_Witness ==
    /\ pre.exhausted
    /\ CouldYield(iterator)
    /\ call.op = "next"

(***************************************************************************)
(* C6: once is_exhausted() is true it stays true and evaluated() keeps its *)
(* value, whatever call follows.                                           *)
(***************************************************************************)
C6_ExhaustionMonotonic ==
    [][is_exhausted(Self) =>
          /\ is_exhausted(Self)'
          /\ evaluated(Self)' = evaluated(Self)]_vars

C6_Witness ==
    /\ pre.exhausted
    /\ exhausted
    /\ CouldYield(iterator)
    /\ call.op = "get_slice"
    /\ call.end.kind = "Included"
    /\ call.end.i > Len(sequence)
    /\ status = "live"

(***************************************************************************)
(* C7: recall(index) leaves the cache, the exhausted flag and the producer *)
(* as they were, and returns the cached value when index is below          *)
(* evaluated_count and absent otherwise.                                   *)
(***************************************************************************)
C7_RecallIsPure ==
    call.op = "recall" =>
        /\ status = "live"
        /\ sequence = pre.sequence
        /\ exhausted = pre.exhausted
        /\ iterator = pre.iterator
        /\ ret = (IF call.idx < Len(pre.sequence)
                  THEN Some(pre.sequence[call.idx + 1]) ELSE None)

C7_Witness ==
    /\ call.op = "recall"
    /\ ~exhausted
    /\ Len(sequence) <= call.idx
    /\ call.idx < Len(FullSeq)
    /\ ret = None

(***************************************************************************)
(* C8: get_slice with an unbounded end and any start bound s makes no      *)
(* producer call, leaves evaluated_count and the exhausted flag unchanged, *)
(* and returns the cached values from index min(s, evaluated_count) up to  *)
(* evaluated_count.                                                        *)
(***************************************************************************)
C8_UnboundedEndIsPure ==
    (call.op = "get_slice" /\ call.end.kind = "Unbounded") =>
        /\ status = "live"
        /\ iterator = pre.iterator
        /\ sequence = pre.sequence
        /\ exhausted = pre.exhausted
        /\ ret = View(pre.sequence, Min(CallStart, Len(pre.sequence)),
                      Len(pre.sequence))

(***************************************************************************)
(* C9: get_slice with start s and inclusive end i forces expansion to      *)
(* contain index i and returns cache[s..=last], last being                 *)
(* min(evaluated_count - 1, i), or an empty view when s exceeds last.      *)
(***************************************************************************)
C9_InclusiveEnd ==
    (call.op = "get_slice" /\ call.end.kind = "Included") =>
        /\ status = "live"
        /\ (Len(sequence) > call.end.i \/ exhausted)
        /\ sequence = SubSeq(FullSeq, 1, Len(sequence))
        /\ LET last == Min(Len(sequence) - 1, call.end.i)
           IN  ret = (IF CallStart <= last
                      THEN View(sequence, CallStart, last + 1) ELSE << >>)

(***************************************************************************)
(* C10: get_slice with start s and exclusive end i >= 1 forces expansion   *)
(* to contain index i - 1, whatever s is, and returns                      *)
(* cache[min(s, end)..end], end being min(evaluated_count, i).             *)
(***************************************************************************)
C10_ExclusiveEnd ==
    (call.op = "get_slice" /\ call.end.kind = "Excluded" /\ call.end.i >= 1) =>
        /\ status = "live"
        /\ (Len(sequence) > call.end.i - 1 \/ exhausted)
        /\ sequence = SubSeq(FullSeq, 1, Len(sequence))
        /\ LET e == Min(Len(sequence), call.end.i)
           IN  ret = View(sequence, Min(CallStart, e), e)

(***************************************************************************)
(* C11: get_slice never faults: for every pair of bounds and every state   *)
(* of the container it returns a view, and the view is empty when the      *)
(* bounds are out of range (the start is not below evaluated_count) or     *)
(* inverted (the start is not below the end).                              *)
(***************************************************************************)
C11_GetSliceNeverFaults ==
    call.op = "get_slice" =>
        /\ status = "live"
        /\ LET stop == CASE call.end.kind = "Unbounded" -> Len(sequence)
                         [] call.end.kind = "Included"  -> call.end.i + 1
                         [] call.end.kind = "Excluded"  -> call.end.i
           IN  (CallStart >= Len(sequence) \/ CallStart >= stop) =>
                   ret = << >>

(***************************************************************************)
(* C12: advance (Iterator::next) on a container that is not exhausted and  *)
(* whose producer has a next value pulls exactly one value, appends it at  *)
(* index evaluated_count and yields that value, not one cached earlier;    *)
(* when the producer signals completion the container becomes exhausted    *)
(* and yields nothing; an exhausted container yields nothing and does not  *)
(* touch the producer.                                                     *)
(***************************************************************************)
C12_Advance ==
    call.op = "next" =>
        /\ status = "live"
        /\ IF pre.exhausted
           THEN ret = None /\ Self = pre
           ELSE /\ iterator.calls = pre.iterator.calls + 1
                /\ IF pre.iterator.rest # << >>
                      /\ Head(pre.iterator.rest) # None
                   THEN /\ ret = Head(pre.iterator.rest)
                        /\ sequence = pre.sequence \o ret
                        /\ sequence[Len(pre.sequence) + 1] = ret[1]
                        /\ ~exhausted
                   ELSE /\ ret = None
                        /\ sequence = pre.sequence
                        /\ exhausted

C12_Witness ==
    /\ call.op = "next"
    /\ Len(pre.sequence) >= 2
    /\ Len(sequence) = Len(pre.sequence) + 1
    /\ ret = Some(sequence[Len(sequence)])

(***************************************************************************)
(* C13: whatever interleaving of next, get and get_slice calls brought the *)
(* container to its state, the cache and the producer are exactly those of *)
(* a container built the same way and driven to the same evaluated_count   *)
(* by get alone, and those of one driven there by next alone.              *)
(***************************************************************************)
(* The container as it was built. *)
InitSelf == with_vec(Producer(initial.script), initial.sequence)

(* self after k calls of next. *)
RECURSIVE AdvanceTimes(_, _)
AdvanceTimes(self, k) ==
    IF k = 0 THEN self ELSE AdvanceTimes(next(self).self, k - 1)

ViaAdvance ==
    AdvanceTimes(InitSelf, Len(sequence) - Len(initial.sequence)
                           + (IF exhausted THEN 1 ELSE 0))

ViaGet ==
    IF exhausted
    THEN get(InitSelf, Len(sequence), overflow_checks).self
    ELSE IF Len(sequence) = Len(initial.sequence)
         THEN InitSelf
         ELSE get(InitSelf, Len(sequence) - 1, overflow_checks).self

C13_InterfacesAgree ==
    /\ Self = ViaGet
    /\ Self = ViaAdvance

C13_Witness ==
    /\ drivers = {"indexed", "next"}
    /\ call.op = "get_slice"
    /\ Len(pre.sequence) = Len(initial.sequence) + 2
    /\ Len(sequence) = Len(initial.sequence) + 3
    /\ exhausted

(***************************************************************************)
(* C14: for a producer that reports its exact remaining count, len() is    *)
(* evaluated_count plus the producer's remaining count in every state, and *)
(* so is always the length of the initial cache plus the producer's total. *)
(***************************************************************************)
C14_LenIsTotal ==
    call.op = "len" =>
        /\ status = "live"
        /\ ret = << Len(sequence) + IteratorLen(iterator) >>
        /\ ret = << Len(initial.sequence) + Len(initial.script) >>

(***************************************************************************)
(* C15: a container created with a pre-populated cache of length k starts  *)
(* not exhausted with evaluated_count = k; its first k entries stay the    *)
(* given values, index k + j holds the j-th value the producer yielded,    *)
(* and get of an index beyond the combined length returns absent and       *)
(* leaves the cache equal to the initial cache followed by all the         *)
(* producer's values.                                                      *)
(***************************************************************************)
C15_PrePopulated ==
    /\ call = NoCall =>
          (~exhausted /\ Len(sequence) = Len(initial.sequence))
    /\ SubSeq(sequence, 1, Len(initial.sequence)) = initial.sequence
    /\ sequence = initial.sequence \o iterator.yielded
    /\ (call.op = "get" /\ call.idx >= Len(FullSeq)) =>
          /\ status = "live"
          /\ ret = None
          /\ sequence = FullSeq

(***************************************************************************)
(* C16: no value is lost: the cache followed by the values the producer    *)
(* still yields is the initial cache followed by the producer's complete   *)
(* sequence, and consume() returns that cache, in production order, and    *)
(* that producer.                                                          *)
(***************************************************************************)
(* The values of a script's Some entries, in order. *)
RECURSIVE SomeValues(_)
SomeValues(script) ==
    IF script = << >>
    THEN << >>
    ELSE Head(script) \o SomeValues(Tail(script))

C16_NoValueLost ==
    /\ sequence \o SomeValues(iterator.rest)
          = initial.sequence \o SomeValues(initial.script)
    /\ call.op = "consume" =>
          /\ ret = << sequence, iterator >>
          /\ ret[1] = initial.sequence \o iterator.yielded
          /\ ret[1] \o SomeValues(ret[2].rest)
                = initial.sequence \o SomeValues(initial.script)

C16_Witness ==
    /\ call.op = "consume"
    /\ status = "consumed"
    /\ drivers = {"indexed", "next"}
    /\ Len(ret[1]) >= Len(initial.sequence) + 2
    /\ CouldYield(ret[2])

C18_NeverOverPulls ==
    (call.op = "get" /\ ~pre.exhausted /\ Len(pre.sequence) <= call.idx) =>
        LET L == Len(pre.sequence)
            left == Len(ValuesBeforeNone(pre.iterator.rest))
            wanted == call.idx - L + 1
        IN  /\ Len(sequence) = Min(call.idx + 1, L + left)
            /\ iterator.calls - pre.iterator.calls
                  = (IF left >= wanted THEN wanted ELSE left + 1)

(***************************************************************************)
(* C19: is_exhausted() is true exactly when some call to the producer has  *)
(* returned completion: construction never sets it, and forcing exactly    *)
(* the last index of a finite producer returns that value and leaves it    *)
(* false.                                                                  *)
(***************************************************************************)
C19_ExhaustedIffCompletionSeen ==
    /\ is_exhausted(Self) <=> (iterator.calls > Len(iterator.yielded))
    /\ call = NoCall => ~is_exhausted(Self)
    /\ (call.op = "get" /\ ~pre.exhausted /\ call.idx + 1 = Len(FullSeq)) =>
          /\ ret = Some(FullSeq[call.idx + 1])
          /\ ~is_exhausted(Self)

C19_Witness ==
    /\ call.op = "get"
    /\ call.idx + 1 = Len(FullSeq)
    /\ Len(pre.sequence) < Len(FullSeq)
    /\ iterator.rest = << >>
    /\ ~exhausted

(***************************************************************************)
(* C20: index arithmetic never overflows: with an excluded start of        *)
(* usize::MAX the normalised start e + 1 lies beyond every index, so the   *)
(* view is empty, and with an inclusive end of usize::MAX the expansion    *)
(* count is computed without a fault and ..=MAX returns every value of     *)
(* the sequence.                                                           *)
(***************************************************************************)
C20_NoIndexOverflow ==
    call.op = "get_slice" =>
        /\ (call.start = Excluded(USIZE_MAX) /\ call.end = Unbounded) =>
              (status = "live" /\ ret = << >>)
        /\ (call.start = Unbounded /\ call.end = Included(USIZE_MAX)) =>
              (status = "live" /\ ret = FullSeq)

=============================================================================
